---- MODULE Spec2Model ----
(***************************************************************************)
(* Model of github.com/mitranim/jel: the JSON Expression Language          *)
(* transcoder (jel.go, jel_internal.go) and the orderings (ord.go,         *)
(* utils.go).                                                              *)
(*                                                                         *)
(* Representation.                                                         *)
(*  - A string is the sequence of its dot-free chunks: "a.b" is            *)
(*    <<"a", "b">>, "" is <<"">>.  strings.Split(s, ".") is then the       *)
(*    string itself, and the \w+ test is a test on each chunk.             *)
(*  - A JSON value is a node [kind, tok, items]: kind is one of "dict",    *)
(*    "list", "str", "num", "bool", "null", "bad" (text that is not JSON)  *)
(*    or "empty" (zero bytes); tok is the token as a string; items are     *)
(*    the elements of a list.                                              *)
(*  - SQL text is the sequence of the pieces appended to it; a piece is a  *)
(*    TLA+ string, a single space included.                                *)
(*  - A Go value is [go, v]: its dynamic type and its printed form.        *)
(*  - An ordering string is the sequence of its tokens: each maximal run   *)
(*    of word characters, each dot, each whitespace character and each     *)
(*    other character is one token; "a.b  desc" is                         *)
(*    <<"a", ".", "b", " ", " ", "desc">>.                                 *)
(***************************************************************************)
EXTENDS Integers, Sequences, FiniteSets, TLC

VARIABLES
  expr,    \* the Expr value: [Text, Type, IsBool]
  call,    \* the last call: [made, op, text, args]
  bui,     \* the sqlb.Bui local of the last AppendExpr, as it was left
  result,  \* what the caller of the last call got
  prev,    \* [call, result] of the call before the last one
  ords,    \* the Ords value: [Items, Type]
  ordCall, \* the last call on ords: [op, vals, input, buf, before]
  ordResult \* what the caller of the last call on ords got

exprVars == <<expr, call, bui, result, prev>>
ordVars == <<ords, ordCall, ordResult>>
vars == <<expr, call, bui, result, prev, ords, ordCall, ordResult>>

----------------------------------------------------------------------------
(* Bounds of the model *)

MaxArgs == 3
MaxNest == 12
MaxOrds == 2

----------------------------------------------------------------------------
(* Strings, JSON nodes, Go values *)

\* val under the name the operator gives it
With(val, Op(_)) == Op(val)

Range(seq) == {seq[i] : i \in 1..Len(seq)}

Words ==
  {"externalName", "internal", "internalTime", "secret", "doesNotExist",
   "and", "or", "any", "not", "between", "AND", "external_name", "1", "2",
   "true", "false", "null", "internalPtr", "internalList", "embeddedName",
   "quoted", "ExternalName", "some_ident", "asc", "desc", "ASC", "Desc",
   "ascending", "nulls", "last"}

\* \w+ on one chunk
IsWord(chunk) == chunk \in Words

S1(chunk) == <<chunk>>

Node(kind, tok, items) == [kind |-> kind, tok |-> tok, items |-> items]

JStr(str) == Node("str", str, <<>>)
JNum(chunk) == Node("num", S1(chunk), <<>>)
JBool(chunk) == Node("bool", S1(chunk), <<>>)
JNull == Node("null", S1("null"), <<>>)
JDict == Node("dict", S1("{\"lng\": 10}"), <<>>)
JBad == Node("bad", S1("nope"), <<>>)
JEmpty == Node("empty", S1(""), <<>>)
JList(items) == Node("list", S1("[]"), items)

GoVal(go, v) == [go |-> go, v |-> v]

NilType == "nil"

----------------------------------------------------------------------------
(* The reference struct types *)

SField(json, db, type, anon) ==
  [json |-> json, db |-> db, type |-> type, anon |-> anon]

RType(kind, elem, fields) == [kind |-> kind, elem |-> elem, fields |-> fields]

Rtypes ==
  [t \in {"External", "*External", "[]External", "Internal", "*Internal",
          "[]Internal", "Embedded", "string", "*time.Time", "time.Time"} |->
     CASE t = "External" ->
            RType("struct", "",
              << SField("externalName", "external_name", "string", FALSE),
                 SField("internal", "internal", "Internal", FALSE),
                 SField("secret", "", "string", FALSE),
                 SField("internalPtr", "internal_ptr", "*Internal", FALSE),
                 SField("internalList", "internal_list", "[]Internal", FALSE),
                 SField("", "", "Embedded", TRUE),
                 SField("quoted", "ext\"ernal", "string", FALSE) >>)
       [] t = "Internal" ->
            RType("struct", "",
              << SField("internalTime", "internal_time", "*time.Time", FALSE) >>)
       [] t = "Embedded" ->
            RType("struct", "",
              << SField("embeddedName", "embedded_name", "string", FALSE) >>)
       [] t = "*Internal" -> RType("ptr", "Internal", <<>>)
       [] t = "[]Internal" -> RType("slice", "Internal", <<>>)
       [] t = "*External" -> RType("ptr", "External", <<>>)
       [] t = "[]External" -> RType("slice", "External", <<>>)
       [] t = "string" -> RType("string", "", <<>>)
       [] t = "*time.Time" -> RType("ptr", "time.Time", <<>>)
       [] t = "time.Time" -> RType("struct", "", <<>>)]

ZeroSField == SField("", "", NilType, FALSE)

----------------------------------------------------------------------------
(* sqlb.Bui: the text and argument accumulator.  err is the value of the   *)
(* panic that is unwinding the call, "" when there is none: an operation   *)
(* on a builder whose call is unwinding does nothing.                      *)

\* A builder that starts with the text and without the arguments
NewBuiNoArgs(text, args) == [Text |-> text, Args |-> <<>>, err |-> ""]

NewBui(text, args) == [Text |-> text, Args |-> args, err |-> ""]

Panic(b, tag) == IF b.err # "" THEN b ELSE [b EXCEPT !.err = tag]

\* try(err): panics when err is set
try(b, err) == IF err = "" THEN b ELSE Panic(b, err)

\* One space goes between two pieces, except after "(" or a space and
\* before ")".
appendMaybeSpaced(text, piece) ==
  IF /\ Len(text) > 0
     /\ text[Len(text)] \notin {"(", " "}
     /\ piece # ")"
  THEN text \o <<" ", piece>>
  ELSE text \o <<piece>>

BuiStr(b, piece) ==
  IF b.err # "" THEN b
  ELSE [b EXCEPT !.Text = appendMaybeSpaced(b.Text, piece)]

\* The ordinal parameter "$k"
OrdinalParam(k) == "$" \o ToString(k)

\* bui.Param(bui.Arg(val)): val becomes the next argument, and its ordinal
\* the next piece of the text
BuiParamArg(b, val) ==
  IF b.err # "" THEN b
  ELSE LET args == Append(b.Args, val)
       IN [b EXCEPT !.Args = args,
                    !.Text = appendMaybeSpaced(b.Text, OrdinalParam(Len(args)))]

openParen(b) == BuiStr(b, "(")
closeParen(b) == BuiStr(b, ")")

Quoted(ident) == "\"" \o ident \o "\""

HasQuote(ident) == ident \in {"ext\"ernal"}

RECURSIVE sqlPathTail(_, _)
sqlPathTail(path, i) ==
  IF i > Len(path) THEN <<>>
  ELSE <<".", Quoted(path[i])>> \o sqlPathTail(path, i + 1)

\* The pieces of a column path: "a" for one segment, ("a")."b"."c" for more
appendSqlPath(path) ==
  IF Len(path) = 0 THEN <<>>
  ELSE IF Len(path) > 1
       THEN <<"(", Quoted(path[1]), ")">> \o sqlPathTail(path, 2)
       ELSE <<Quoted(path[1])>>

\* bui.Set(sqlb.Path(path).AppendExpr(bui.Get()))
BuiPath(b, path) ==
  IF b.err # "" THEN b
  ELSE IF \E i \in 1..Len(path) : HasQuote(path[i])
       THEN Panic(b, "QuoteInIdentifier")
       ELSE LET pieces == appendSqlPath(path)
                spaced == IF Len(pieces) = 0 THEN b.Text
                          ELSE appendMaybeSpaced(b.Text, pieces[1])
            IN [b EXCEPT !.Text = spaced \o SubSeq(pieces, 2, Len(pieces))]

----------------------------------------------------------------------------
(* Finding struct fields by JSON name and by JSON path *)

\* (?:\w+\.)*\w+ anchored at both ends
dottedPathReg(str) == \A i \in 1..Len(str) : IsWord(str[i])

\* reflect.Type.Elem through pointers
RECURSIVE RtypeDeref(_)
RtypeDeref(rtype) ==
  IF rtype = NilType THEN rtype
  ELSE With(Rtypes[rtype], LAMBDA t :
         IF t.kind = "ptr" THEN RtypeDeref(t.elem) ELSE rtype)

\* The fields refut.TraverseStructRtype visits, in order: those of the
\* struct, with the fields of an embedded struct in place of it.
RECURSIVE traverseFields(_)
traverseFields(rtype) ==
  With(Rtypes[rtype].fields, LAMBDA fields :
    LET Visit[i \in 0..Len(fields)] ==
          IF i = 0 THEN <<>>
          ELSE With(RtypeDeref(fields[i].type), LAMBDA inner :
                 IF fields[i].anon /\ Rtypes[inner].kind = "struct"
                 THEN Visit[i - 1] \o traverseFields(inner)
                 ELSE Append(Visit[i - 1], fields[i]))
    IN Visit[Len(fields)])

FirstMatch(fields, name) ==
  LET hits == {i \in 1..Len(fields) : fields[i].json = name}
  IN IF hits = {} THEN 0 ELSE CHOOSE i \in hits : \A j \in hits : i <= j

fieldByJsonName(rtype, name) ==
  IF rtype = NilType
  THEN [err |-> "NoSchemaProvided", sfield |-> ZeroSField]
  ELSE With(RtypeDeref(rtype), LAMBDA inner :
         IF Rtypes[inner].kind # "struct"
         THEN [err |-> "NotAStruct", sfield |-> ZeroSField]
         ELSE With(traverseFields(inner), LAMBDA fields :
                With(FirstMatch(fields, name), LAMBDA hit :
                  IF hit = 0
                  THEN [err |-> "UnknownField", sfield |-> ZeroSField]
                  ELSE [err |-> "", sfield |-> fields[hit]])))

RECURSIVE pathSegments(_, _, _, _, _)
pathSegments(rtype, pathStr, i, sfield, path) ==
  IF i > Len(pathStr) THEN [err |-> "", sfield |-> sfield, path |-> path]
  ELSE With(fieldByJsonName(rtype, pathStr[i]), LAMBDA found :
         IF found.err # ""
         THEN [err |-> found.err, sfield |-> sfield, path |-> path]
         ELSE IF found.sfield.db = ""
              THEN [err |-> "NoStorageMapping", sfield |-> found.sfield,
                    path |-> path]
              ELSE pathSegments(found.sfield.type, pathStr, i + 1, found.sfield,
                      [path EXCEPT ![i] = found.sfield.db]))

\* fieldByJsonPath without the check of the path's syntax
fieldByJsonPathUnchecked(rtype, pathStr) ==
  IF rtype = NilType
  THEN [err |-> "NoSchemaProvided", sfield |-> ZeroSField, path |-> <<>>]
  ELSE pathSegments(rtype, pathStr, 1, ZeroSField, pathStr)

\* fieldByJsonPath with the type looked at before the path's syntax
fieldByJsonPathTypeFirst(rtype, pathStr) ==
  IF rtype = NilType
  THEN [err |-> "NoSchemaProvided", sfield |-> ZeroSField, path |-> <<>>]
  ELSE IF ~dottedPathReg(pathStr)
       THEN [err |-> "InvalidPath", sfield |-> ZeroSField, path |-> <<>>]
       ELSE pathSegments(rtype, pathStr, 1, ZeroSField, pathStr)

fieldByJsonPath(rtype, pathStr) ==
  IF ~dottedPathReg(pathStr)
  THEN [err |-> "InvalidPath", sfield |-> ZeroSField, path |-> <<>>]
  ELSE IF rtype = NilType
       THEN [err |-> "NoSchemaProvided", sfield |-> ZeroSField, path |-> <<>>]
       ELSE pathSegments(rtype, pathStr, 1, ZeroSField, pathStr)

----------------------------------------------------------------------------
(* encoding/json, as far as the transcoder uses it *)

isJsonDict(input) == input.kind = "dict"
isJsonList(input) == input.kind = "list"
isJsonString(input) == input.kind = "str"

TimeStrings == { S1("9999-01-01T00:00:00Z") }

\* json.Unmarshal(input, &val) with val an interface{}: numbers become
\* float64, booleans bool, null the nil interface.
UnmarshalAny(input) ==
  CASE input.kind = "num" -> [err |-> "", val |-> GoVal("float64", input.tok)]
    [] input.kind = "bool" -> [err |-> "", val |-> GoVal("bool", input.tok)]
    [] input.kind = "null" -> [err |-> "", val |-> GoVal("nil", S1("nil"))]
    [] OTHER -> [err |-> "InvalidJson", val |-> GoVal("nil", S1("nil"))]

RECURSIVE UnmarshalableAs(_, _)
UnmarshalableAs(input, rtype) ==
  LET kind == Rtypes[rtype].kind
  IN CASE kind = "string" -> input.kind = "str"
       [] kind = "ptr" -> UnmarshalableAs(input, Rtypes[rtype].elem)
       [] rtype = "time.Time" -> input.kind = "str" /\ input.tok \in TimeStrings
       [] OTHER -> input.kind = "dict"

\* json.Unmarshal(input, reflect.New(rtype).Interface()): null leaves the
\* zero value of the type; anything else must be JSON for the type.
UnmarshalInto(input, rtype) ==
  IF input.kind \in {"bad", "empty"}
  THEN [err |-> "CastDecodeFailure", val |-> GoVal(rtype, S1("zero"))]
  ELSE IF input.kind = "null"
       THEN [err |-> "", val |-> GoVal(rtype, S1("zero"))]
       ELSE IF UnmarshalableAs(input, rtype)
            THEN [err |-> "", val |-> GoVal(rtype, input.tok)]
            ELSE [err |-> "CastDecodeFailure", val |-> GoVal(rtype, S1("zero"))]

----------------------------------------------------------------------------
(* The whitelist of SQL operations *)

SqlPrefix == 1
SqlPostfix == 2
SqlInfix == 3
SqlFunc == 4
SqlAny == 5
SqlBetween == 6

InfixNames ==
  {"and", "or", "is distinct from", "is not distinct from", "=", "~", "~*",
   "~=", "<>", "<", ">", ">=", "<=", "@@"}

PostfixNames ==
  {"is null", "is not null", "is true", "is not true", "is false",
   "is not false", "is unknown", "is not unknown"}

PrefixNames == {"not"}

SqlOpNames == InfixNames \cup PostfixNames \cup PrefixNames \cup {"any", "between"}

SqlOps ==
  [name \in SqlOpNames |->
     CASE name \in InfixNames -> SqlInfix
       [] name \in PostfixNames -> SqlPostfix
       [] name \in PrefixNames -> SqlPrefix
       [] name = "any" -> SqlAny
       [] name = "between" -> SqlBetween]

\* SqlOps[name]: the zero SqlOpSyntax for a name that is not a key
SqlOpsAt(name) ==
  IF Len(name) = 1 /\ name[1] \in DOMAIN SqlOps THEN SqlOps[name[1]] ELSE 0

----------------------------------------------------------------------------
(* Expr.decode and what it calls *)

RECURSIVE decode(_, _, _)
RECURSIVE decodeArgs(_, _, _, _, _)

\* The loop shared by the infix and the function form: each argument is
\* decoded in order, with sep before every argument but the first.
decodeArgs(self, b, sep, args, i) ==
  IF i > Len(args) THEN b
  ELSE LET withSep == IF i > 1 THEN BuiStr(b, sep) ELSE b
       IN decodeArgs(self, decode(self, withSep, args[i]), sep, args, i + 1)

decodeOpPrefix(self, b, name, args) ==
  IF Len(args) # 1 THEN Panic(b, "ArityMismatch")
  ELSE closeParen(decode(self, BuiStr(openParen(b), name[1]), args[1]))

\* decodeOpPostfix with the operator written before the operand
decodeOpPostfixBefore(self, b, name, args) ==
  IF Len(args) # 1 THEN Panic(b, "ArityMismatch")
  ELSE closeParen(decode(self, BuiStr(openParen(b), name[1]), args[1]))

decodeOpPostfix(self, b, name, args) ==
  IF Len(args) # 1 THEN Panic(b, "ArityMismatch")
  ELSE closeParen(BuiStr(decode(self, openParen(b), args[1]), name[1]))

\* decodeOpInfix that lets a single operand through
decodeOpInfixUnary(self, b, name, args) ==
  IF ~(Len(args) >= 1) THEN Panic(b, "ArityMismatch")
  ELSE closeParen(decodeArgs(self, openParen(b), name[1], args, 1))

decodeOpInfix(self, b, name, args) ==
  IF ~(Len(args) >= 2) THEN Panic(b, "ArityMismatch")
  ELSE closeParen(decodeArgs(self, openParen(b), name[1], args, 1))

decodeOpFunc(self, b, name, args) ==
  closeParen(decodeArgs(self, openParen(BuiStr(b, name[1])), ",", args, 1))

\* decodeOpAny with the two operands decoded in the other order
decodeOpAnyReversed(self, b, name, args) ==
  IF Len(args) # 2 THEN Panic(b, "ArityMismatch")
  ELSE LET first == decode(self, openParen(b), args[2])
           opened == openParen(BuiStr(BuiStr(first, "="), name[1]))
       IN closeParen(closeParen(decode(self, opened, args[1])))

decodeOpAny(self, b, name, args) ==
  IF Len(args) # 2 THEN Panic(b, "ArityMismatch")
  ELSE LET first == decode(self, openParen(b), args[1])
           opened == openParen(BuiStr(BuiStr(first, "="), name[1]))
       IN closeParen(closeParen(decode(self, opened, args[2])))

decodeOpBetween(self, b, name, args) ==
  IF Len(args) # 3 THEN Panic(b, "ArityMismatch")
  ELSE LET first == decode(self, openParen(b), args[1])
           second == decode(self, BuiStr(first, "between"), args[2])
           third == decode(self, BuiStr(second, "and"), args[3])
       IN closeParen(third)

\* decodeCast that reads its first argument and ignores any further one
decodeCastFirstArg(self, b, name, args) ==
  IF Len(args) < 1 THEN Panic(b, "CastArityMismatch")
  ELSE LET found == fieldByJsonPath(self.Type, name)
       IN IF found.err # "" THEN try(b, found.err)
          ELSE LET rval == UnmarshalInto(args[1], found.sfield.type)
               IN IF rval.err # "" THEN try(b, rval.err)
                  ELSE BuiParamArg(b, rval.val)

decodeCast(self, b, name, args) ==
  IF Len(args) # 1 THEN Panic(b, "CastArityMismatch")
  ELSE LET found == fieldByJsonPath(self.Type, name)
       IN IF found.err # "" THEN try(b, found.err)
          ELSE LET rval == UnmarshalInto(args[1], found.sfield.type)
               IN IF rval.err # "" THEN try(b, rval.err)
                  ELSE BuiParamArg(b, rval.val)

\* decodeString with the public path emitted as it came, unresolved
decodeStringUnresolved(self, b, input) ==
  LET found == fieldByJsonPath(self.Type, input.tok)
  IN IF found.err # "" THEN try(b, found.err)
     ELSE BuiPath(b, input.tok)

decodeString(self, b, input) ==
  LET found == fieldByJsonPath(self.Type, input.tok)
  IN IF found.err # "" THEN try(b, found.err)
     ELSE BuiPath(b, found.path)

\* decodeAny with the literal passed on as its JSON text
decodeAnyRaw(self, b, input) ==
  LET got == UnmarshalAny(input)
  IN IF got.err # "" THEN try(b, got.err)
     ELSE BuiParamArg(b, GoVal("string", input.tok))

decodeAny(self, b, input) ==
  LET got == UnmarshalAny(input)
  IN IF got.err # "" THEN try(b, got.err)
     ELSE BuiParamArg(b, got.val)

\* decodeList that writes nothing for an empty list
decodeListEmptyOk(self, b, input) ==
  LET list == input.items
  IN IF ~(Len(list) > 0) THEN b
     ELSE LET head == list[1]
              args == SubSeq(list, 2, Len(list))
          IN IF ~isJsonString(head) THEN Panic(b, "HeadNotString")
             ELSE LET name == head.tok
                      syntax == SqlOpsAt(name)
                  IN CASE syntax = SqlPrefix -> decodeOpPrefix(self, b, name, args)
                       [] syntax = SqlPostfix -> decodeOpPostfix(self, b, name, args)
                       [] syntax = SqlInfix -> decodeOpInfix(self, b, name, args)
                       [] syntax = SqlFunc -> decodeOpFunc(self, b, name, args)
                       [] syntax = SqlAny -> decodeOpAny(self, b, name, args)
                       [] syntax = SqlBetween -> decodeOpBetween(self, b, name, args)
                       [] OTHER -> decodeCast(self, b, name, args)

decodeList(self, b, input) ==
  LET list == input.items
  IN IF ~(Len(list) > 0) THEN Panic(b, "EmptyList")
     ELSE LET head == list[1]
              args == SubSeq(list, 2, Len(list))
          IN IF ~isJsonString(head) THEN Panic(b, "HeadNotString")
             ELSE LET name == head.tok
                      syntax == SqlOpsAt(name)
                  IN CASE syntax = SqlPrefix -> decodeOpPrefix(self, b, name, args)
                       [] syntax = SqlPostfix -> decodeOpPostfix(self, b, name, args)
                       [] syntax = SqlInfix -> decodeOpInfix(self, b, name, args)
                       [] syntax = SqlFunc -> decodeOpFunc(self, b, name, args)
                       [] syntax = SqlAny -> decodeOpAny(self, b, name, args)
                       [] syntax = SqlBetween -> decodeOpBetween(self, b, name, args)
                       [] OTHER -> decodeCast(self, b, name, args)

\* How deep the lists of a node nest
RECURSIVE Depth(_)
Depth(node) ==
  IF node.kind # "list" THEN 0
  ELSE 1 + (IF node.items = <<>> THEN 0
            ELSE CHOOSE d \in {Depth(item) : item \in Range(node.items)} :
                   \A item \in Range(node.items) : Depth(item) <= d)

\* decode that refuses the deepest inputs
decodeLimited(self, b, input) ==
  IF b.err # "" THEN b
  ELSE IF Depth(input) >= MaxNest THEN Panic(b, "TooDeep")
  ELSE IF isJsonDict(input) THEN Panic(b, "UnexpectedObject")
  ELSE IF isJsonList(input) THEN decodeList(self, b, input)
  ELSE IF isJsonString(input) THEN decodeString(self, b, input)
  ELSE decodeAny(self, b, input)

decode(self, b, input) ==
  IF b.err # "" THEN b
  ELSE IF isJsonDict(input) THEN Panic(b, "UnexpectedObject")
  ELSE IF isJsonList(input) THEN decodeList(self, b, input)
  ELSE IF isJsonString(input) THEN decodeString(self, b, input)
  ELSE decodeAny(self, b, input)

----------------------------------------------------------------------------
(* Constructing an Expr *)

RECURSIVE typeElem(_)
typeElem(typ) ==
  IF typ # NilType /\ Rtypes[typ].kind \in {"ptr", "slice"}
  THEN typeElem(Rtypes[typ].elem)
  ELSE typ

elemTypeOf(typ) == typeElem(typ)

ExprFor(val) == [Text |-> JEmpty, Type |-> elemTypeOf(val), IsBool |-> FALSE]

Bool(val) == [Text |-> JEmpty, Type |-> elemTypeOf(val), IsBool |-> TRUE]

----------------------------------------------------------------------------
(* The inputs the model draws from *)

sExternalName == <<"externalName">>
sInternal == <<"internal">>
sInternalTime == <<"internal", "internalTime">>
sSecret == <<"secret">>
sMissing == <<"doesNotExist">>
sTrailingDot == <<"internal", "">>
sEmptyPath == <<"">>
sThroughString == <<"externalName", "internal">>
sThroughPtr == <<"internalPtr", "internalTime">>
sThroughList == <<"internalList", "internalTime">>
sEmbeddedName == <<"embeddedName">>
sNestedOnly == <<"internalTime">>
sQuoted == <<"quoted">>
sLiteral == <<"literal string">>
sTime == <<"9999-01-01T00:00:00Z">>

CarrierTypes == {NilType, "External", "*External", "[]External"}

PathStrings ==
  {sExternalName, sInternal, sInternalTime, sSecret, sMissing, sTrailingDot,
   sEmptyPath,
   sThroughString, sThroughPtr, sThroughList, sEmbeddedName, sNestedOnly,
   sQuoted, sLiteral, sTime, S1("and"), S1("is null")}

Leaves ==
  {JStr(str) : str \in PathStrings}
    \cup {JNum("1"), JNum("2"), JBool("true"), JBool("false"), JNull, JDict,
          JBad, JEmpty}

ArgLeaves == {JNum("1"), JStr(sExternalName), JDict}

SeqsUpTo(set, n) == UNION {[1..k -> set] : k \in 0..n}

CastHeads ==
  {sExternalName, sInternal, sInternalTime, sSecret, sMissing, sLiteral,
   S1("AND")}

Heads == {S1(name) : name \in SqlOpNames} \cup CastHeads

\* [head, leaf, ..., leaf]
FlatLists ==
  {JList(<<JStr(head)>> \o args) :
     head \in Heads, args \in SeqsUpTo(ArgLeaves, MaxArgs)}

\* Lists without a head, or with a head that is no string
HeadlessLists ==
  {JList(items) :
     items \in {<<>>, <<JNum("1")>>, <<JNull, JNum("1")>>, <<JDict, JNum("1")>>,
                <<JList(<<>>)>>, <<JList(<<JStr(S1("not")), JBool("true")>>)>>,
                <<JBad>>}}

Call1(name, x) == JList(<<JStr(S1(name)), x>>)
Call2(name, x, y) == JList(<<JStr(S1(name)), x, y>>)
Cast(path, x) == JList(<<JStr(path), x>>)

SubExprs ==
  {JBool("false"),
   Call2("=", JStr(sInternalTime), Cast(sInternalTime, JNum("2"))),
   Call2("or", Call1("is null", JStr(sExternalName)), JNum("2")),
   JList(<<JStr(S1("and")), JBool("true")>>)}

\* ["=", path, [path, payload]]
EqCasts ==
  {Call2("=", JStr(path), Cast(path, payload)) :
     path \in {sExternalName, sInternal, sInternalTime},
     payload \in ArgLeaves \cup {JStr(sLiteral), JStr(sTime), JNull, JBad}}

NestHeads ==
  {S1("and"), S1("="), S1("not"), S1("is null"), S1("any"), S1("between"),
   sExternalName}

\* [head, sub-expression, ..., sub-expression]
NestedLists ==
  {JList(<<JStr(head)>> \o args) :
     head \in NestHeads, args \in SeqsUpTo(SubExprs, MaxArgs)}

\* depth lists around leaf: ["not", ["not", ... leaf]]
RECURSIVE Nest(_, _)
Nest(depth, leaf) ==
  IF depth = 0 THEN leaf ELSE Call1("not", Nest(depth - 1, leaf))

Chains == {Nest(d, leaf) : d \in 1..MaxNest, leaf \in {JBool("true"), JDict}}

\* The input of TestTranscode
TestTranscodeSrc ==
  Call2("and",
    Call2("or", JBool("false"),
      Call2("=", JStr(sExternalName), Cast(sExternalName, JStr(sLiteral)))),
    Call2("and", JBool("true"),
      Call2("<", JStr(sInternalTime), Cast(sInternalTime, JStr(sTime)))))

Inputs ==
  Leaves \cup FlatLists \cup HeadlessLists \cup NestedLists \cup EqCasts
    \cup Chains \cup {TestTranscodeSrc}

\* The (text, args) a caller passes: nothing, or the start of a query
InBufs ==
  {[text |-> <<>>, args |-> <<>>],
   [text |-> <<"where">>, args |-> <<GoVal("string", S1("x"))>>]}

----------------------------------------------------------------------------
(* Ord and Ords: parsing (ord.go, utils.go) *)

OrdAsc(path) == [Path |-> path, IsDesc |-> FALSE]
OrdDesc(path) == [Path |-> path, IsDesc |-> TRUE]

OrdsFrom(items) == [Items |-> items, Type |-> NilType]
OrdsFor(val) == [Items |-> <<>>, Type |-> val]

\* \s of the regexp package
WhitespaceTokens == {" ", "\t", "\n"}

\* Simple case folding, on the tokens the model holds
FoldCase(tok) ==
  CASE tok \in {"asc", "ASC", "Asc"} -> "asc"
    [] tok \in {"desc", "DESC", "Desc"} -> "desc"
    [] OTHER -> tok

EqualFold(one, other) == FoldCase(one) = FoldCase(other)

\* (?:\w+\.)*\w+ on tokens: words with single dots between them
IsDottedPath(toks) ==
  /\ Len(toks) % 2 = 1
  /\ \A i \in 1..Len(toks) :
       IF i % 2 = 1 THEN IsWord(toks[i]) ELSE toks[i] = "."

\* The words of a dotted path, as the string split on the dots
DottedWords(toks) == [i \in 1..((Len(toks) + 1) \div 2) |-> toks[2 * i - 1]]

NoMatch == [ok |-> FALSE, path |-> <<>>, dir |-> ""]

\* The pattern without the $ at its end: whatever follows the direction
\* is let through
ordRegUnanchored(str) ==
  LET n == Len(str)
      spaces == {i \in 1..n : str[i] \in WhitespaceTokens}
      words == {i \in 1..n : i \notin spaces}
  IN IF spaces = {} THEN NoMatch
     ELSE LET k == CHOOSE i \in spaces : \A j \in spaces : i <= j
              after == {i \in words : i > k}
          IN IF after = {} THEN NoMatch
             ELSE LET m == CHOOSE i \in after : \A j \in after : i <= j
                  IN IF /\ IsDottedPath(SubSeq(str, 1, k - 1))
                        /\ FoldCase(str[m]) \in {"asc", "desc"}
                     THEN [ok |-> TRUE,
                           path |-> DottedWords(SubSeq(str, 1, k - 1)),
                           dir |-> str[m]]
                     ELSE NoMatch

\* ordReg.FindStringSubmatch(str): ^(dottedPath)\s+(?i)(asc|desc)$
ordReg(str) ==
  LET n == Len(str)
      spaces == {i \in 1..n : str[i] \in WhitespaceTokens}
  IN IF spaces = {} THEN NoMatch
     ELSE LET k == CHOOSE i \in spaces : \A j \in spaces : i <= j
          IN IF /\ spaces = k..(n - 1)
                /\ IsDottedPath(SubSeq(str, 1, k - 1))
                /\ FoldCase(str[n]) \in {"asc", "desc"}
             THEN [ok |-> TRUE, path |-> DottedWords(SubSeq(str, 1, k - 1)),
                   dir |-> str[n]]
             ELSE NoMatch

sfieldByJsonName(rtype, name) ==
  IF rtype = NilType
  THEN [err |-> "NoSchemaProvided", sfield |-> ZeroSField]
  ELSE With(RtypeDeref(rtype), LAMBDA inner :
         IF Rtypes[inner].kind # "struct"
         THEN [err |-> "NotAStruct", sfield |-> ZeroSField]
         ELSE With(traverseFields(inner), LAMBDA fields :
                With(FirstMatch(fields, name), LAMBDA hit :
                  IF hit = 0
                  THEN [err |-> "UnknownField", sfield |-> ZeroSField]
                  ELSE [err |-> "", sfield |-> fields[hit]])))

\* The loop of structFieldByJsonPath, from segment i on
RECURSIVE structPathSegments(_, _, _, _, _)
structPathSegments(rtype, pathStr, i, sfield, path) ==
  IF i > Len(pathStr) THEN [err |-> "", sfield |-> sfield, path |-> path]
  ELSE With(sfieldByJsonName(rtype, pathStr[i]), LAMBDA found :
         IF found.err # ""
         THEN [err |-> found.err, sfield |-> sfield, path |-> path]
         ELSE IF found.sfield.db = ""
              THEN [err |-> "NoStorageMapping", sfield |-> found.sfield,
                    path |-> path]
              ELSE structPathSegments(found.sfield.type, pathStr, i + 1, found.sfield,
                      [path EXCEPT ![i] = found.sfield.db]))

structFieldByJsonPath(rtype, pathStr) ==
  IF ~dottedPathReg(pathStr)
  THEN [err |-> "InvalidPath", sfield |-> ZeroSField, path |-> <<>>]
  ELSE IF rtype = NilType
       THEN [err |-> "NoSchemaProvided", sfield |-> ZeroSField, path |-> <<>>]
       ELSE structPathSegments(rtype, pathStr, 1, ZeroSField, pathStr)

\* Ords.parseOrd: the ordering a string stands for, or the error
parseOrd(self, str) ==
  With(ordReg(str), LAMBDA match :
    IF ~match.ok
    THEN [err |-> "InvalidOrderingSyntax", ord |-> OrdAsc(<<>>)]
    ELSE With(structFieldByJsonPath(self.Type, match.path), LAMBDA found :
           IF found.err # ""
           THEN [err |-> found.err, ord |-> OrdAsc(<<>>)]
           ELSE [err |-> "",
                 ord |-> [Path |-> found.path,
                          IsDesc |-> EqualFold(match.dir, "desc")]]))

\* The loop of ParseSlice with an ordering that is already among the
\* items left out
RECURSIVE parseSliceFromDedup(_, _, _, _)
parseSliceFromDedup(self, vals, i, items) ==
  IF i > Len(vals) THEN [Items |-> items, err |-> ""]
  ELSE With(parseOrd(self, vals[i]), LAMBDA got :
         IF got.err # "" THEN [Items |-> items, err |-> got.err]
         ELSE parseSliceFromDedup(self, vals, i + 1,
                IF got.ord \in Range(items) THEN items
                ELSE Append(items, got.ord)))

\* The loop of Ords.ParseSlice from string i on: Items after it, and the
\* error it returns
RECURSIVE parseSliceFrom(_, _, _, _)
parseSliceFrom(self, vals, i, items) ==
  IF i > Len(vals) THEN [Items |-> items, err |-> ""]
  ELSE With(parseOrd(self, vals[i]), LAMBDA got :
         IF got.err # "" THEN [Items |-> items, err |-> got.err]
         ELSE parseSliceFrom(self, vals, i + 1, Append(items, got.ord)))

\* ParseSlice without the fresh Items: the loop appends to what is held
parseSliceAppending(self, vals) == parseSliceFrom(self, vals, 1, self.Items)

parseSlice(self, vals) == parseSliceFrom(self, vals, 1, <<>>)

\* json.Unmarshal(input, &vals) with vals a []string: null leaves it nil,
\* a null element leaves the empty string
UnmarshalStrings(input) ==
  IF input.kind = "null" THEN [err |-> "", vals |-> <<>>]
  ELSE IF input.kind # "list" THEN [err |-> "InvalidJson", vals |-> <<>>]
  ELSE IF \E i \in 1..Len(input.items) : input.items[i].kind \notin {"str", "null"}
  THEN [err |-> "InvalidJson", vals |-> <<>>]
  ELSE [err |-> "",
        vals |-> [i \in 1..Len(input.items) |->
                    IF input.items[i].kind = "null" THEN <<>>
                    ELSE input.items[i].tok]]

----------------------------------------------------------------------------
(* Ord and Ords: rendering (ord.go, utils.go) *)

appendStr(b, str) ==
  IF b.err # "" THEN b ELSE [b EXCEPT !.Text = Append(b.Text, str)]

appendEnclosed(b, prefix, infix, suffix) ==
  appendStr(b, prefix \o infix \o suffix)

\* The loop of appendSqlPath with parentheses around every segment
RECURSIVE appendSqlPathFromAllParens(_, _, _)
appendSqlPathFromAllParens(b, path, i) ==
  IF i > Len(path) \/ b.err # "" THEN b
  ELSE IF HasQuote(path[i]) THEN Panic(b, "QuoteInIdentifier")
  ELSE IF i = 1
  THEN appendSqlPathFromAllParens(
         IF Len(path) > 1 THEN appendEnclosed(b, "(\"", path[i], "\")")
                          ELSE appendEnclosed(b, "\"", path[i], "\""),
         path, i + 1)
  ELSE appendSqlPathFromAllParens(
         appendEnclosed(appendStr(b, "."), "(\"", path[i], "\")"),
         path, i + 1)

\* The loop of appendSqlPath(buf, path) of utils.go, from segment i on
RECURSIVE appendSqlPathFrom(_, _, _)
appendSqlPathFrom(b, path, i) ==
  IF i > Len(path) \/ b.err # "" THEN b
  ELSE IF HasQuote(path[i]) THEN Panic(b, "QuoteInIdentifier")
  ELSE IF i = 1
  THEN appendSqlPathFrom(
         IF Len(path) > 1 THEN appendEnclosed(b, "(\"", path[i], "\")")
                          ELSE appendEnclosed(b, "\"", path[i], "\""),
         path, i + 1)
  ELSE appendSqlPathFrom(appendEnclosed(appendStr(b, "."), "\"", path[i], "\""),
                         path, i + 1)

isWhitespaceChar(piece) ==
  piece \in {" ", "\n", "\r", "\t", "order by ", ", ", "select "}

endsWithWhitspace(text) == Len(text) > 0 /\ isWhitespaceChar(text[Len(text)])

appendSpaceIfNeeded(b) ==
  IF Len(b.Text) > 0 /\ ~endsWithWhitspace(b.Text) THEN appendStr(b, " ") ELSE b

\* Ord.AppendBytes
OrdAppendBytes(b, ord) ==
  appendStr(appendStr(appendSqlPathFrom(b, ord.Path, 1), " "),
            IF ord.IsDesc THEN "desc" ELSE "asc")

\* The loop of AppendBytes with the keyword before every item
RECURSIVE OrdsAppendItemsRepeated(_, _, _)
OrdsAppendItemsRepeated(b, items, i) ==
  IF i > Len(items) \/ b.err # "" THEN b
  ELSE OrdsAppendItemsRepeated(
         OrdAppendBytes(appendStr(appendSpaceIfNeeded(b), "order by "),
                        items[i]),
         items, i + 1)

\* The loop of Ords.AppendBytes, from item i on
RECURSIVE OrdsAppendItems(_, _, _)
OrdsAppendItems(b, items, i) ==
  IF i > Len(items) \/ b.err # "" THEN b
  ELSE LET started == IF i = 1
                      THEN appendStr(appendSpaceIfNeeded(b), "order by ")
                      ELSE appendStr(b, ", ")
       IN OrdsAppendItems(OrdAppendBytes(started, items[i]), items, i + 1)

\* The bytes of a text
RECURSIVE Flat(_)
Flat(text) == IF text = <<>> THEN "" ELSE text[1] \o Flat(Tail(text))

----------------------------------------------------------------------------
(* The state machine *)

NoOrdCall ==
  [op |-> "", vals |-> <<>>, input |-> JEmpty, buf |-> <<>>, before |-> <<>>,
   again |-> FALSE]
NoOrdResult == [status |-> "none", text |-> <<>>, err |-> ""]


NoResult == [status |-> "none", text |-> <<>>, args |-> <<>>, err |-> ""]
NoCall == [made |-> FALSE, op |-> "", text |-> <<>>, args |-> <<>>]
NoPrev == [call |-> NoCall, result |-> NoResult]

Init ==
  /\ expr \in {ExprFor(val) : val \in CarrierTypes}
                \cup {Bool(val) : val \in CarrierTypes}
  /\ call = NoCall
  /\ bui = NewBui(<<>>, <<>>)
  /\ result = NoResult
  /\ prev = NoPrev
  /\ ords = OrdsFrom(<<>>)
  /\ ordCall = NoOrdCall
  /\ ordResult = NoOrdResult

\* Expr.UnmarshalText: stores the input
UnmarshalText ==
  /\ expr.Text = JEmpty
  /\ ~call.made
  /\ \E val \in Inputs : expr' = [expr EXCEPT !.Text = val]
  /\ UNCHANGED <<call, bui, result, prev>>
  /\ UNCHANGED ordVars

\* Expr.UnmarshalJSON: stores the input
UnmarshalJSON ==
  /\ expr.Text = JEmpty
  /\ ~call.made
  /\ \E val \in Inputs : expr' = [expr EXCEPT !.Text = val]
  /\ UNCHANGED <<call, bui, result, prev>>
  /\ UNCHANGED ordVars

\* AppendExpr without the branch for the empty boolean expression
TranscodeAlways(self, text, args) == decode(self, NewBui(text, args), self.Text)

\* The builder AppendExpr is left with
Transcode(self, text, args) ==
  IF self.IsBool /\ self.Text.kind = "empty"
  THEN BuiStr(NewBui(text, args), "true")
  ELSE decode(self, NewBui(text, args), self.Text)

\* AppendExpr that recovers and returns what the builder holds
OutcomeRecovered(b) ==
  [status |-> IF b.err = "" THEN "returned" ELSE "panic",
   text |-> b.Text, args |-> b.Args, err |-> b.err]

\* What the caller of AppendExpr gets from builder b: bui.Get() when the
\* call returns, only the panic value when it panics.
Outcome(b) ==
  IF b.err = ""
  THEN [status |-> "returned", text |-> b.Text, args |-> b.Args, err |-> ""]
  ELSE [status |-> "panic", text |-> <<>>, args |-> <<>>, err |-> b.err]

\* AppendExpr that goes on from the builder of the call before
AppendExprContinued(text, args) ==
  /\ bui' = Transcode(expr, bui.Text \o text, bui.Args \o args)
  /\ result' = Outcome(bui')
  /\ call' = [made |-> TRUE, op |-> "AppendExpr", text |-> text, args |-> args]
  /\ prev' = [call |-> call, result |-> result]
  /\ UNCHANGED expr
  /\ UNCHANGED ordVars

AppendExpr(text, args) ==
  /\ bui' = Transcode(expr, text, args)
  /\ result' = Outcome(bui')
  /\ call' = [made |-> TRUE, op |-> "AppendExpr", text |-> text, args |-> args]
  /\ prev' = [call |-> call, result |-> result]
  /\ UNCHANGED expr
  /\ UNCHANGED ordVars

\* exprAppend(&self, text): AppendExpr(text, nil), the arguments dropped
exprAppend(b) == [Outcome(b) EXCEPT !.args = <<>>]

\* Expr.String() is exprString: exprAppend(&self, nil) as a string
String ==
  /\ bui' = Transcode(expr, <<>>, <<>>)
  /\ result' = exprAppend(bui')
  /\ call' = [made |-> TRUE, op |-> "String", text |-> <<>>, args |-> <<>>]
  /\ prev' = [call |-> call, result |-> result]
  /\ UNCHANGED expr
  /\ UNCHANGED ordVars

Next ==
  \/ UnmarshalText
  \/ UnmarshalJSON
  \/ \E in \in InBufs : AppendExpr(in.text, in.args)
  \/ String

Spec == Init /\ [][Next]_vars

----------------------------------------------------------------------------
(* The inputs of the orderings *)

dExternalAsc == <<"externalName", " ", "asc">>
dInternalTimeDesc == <<"internal", ".", "internalTime", " ", "desc">>
dExternalDESC == <<"externalName", " ", "\t", "DESC">>
dNullsLast == <<"external_name", " ", "asc", " ", "nulls", " ", "last">>
dNoDirection == <<"externalName">>
dTrailingDot == <<"internal", ".", " ", "asc">>
dMissing == <<"doesNotExist", " ", "asc">>
dCapital == <<"ExternalName", " ", "Desc">>
dSecret == <<"secret", " ", "asc">>
dAscending == <<"externalName", " ", "ascending">>
dLeadingSpace == <<" ", "externalName", " ", "asc">>
dQuoted == <<"quoted", " ", "desc">>
dEmpty == <<>>

Directives ==
  {dExternalAsc, dInternalTimeDesc, dExternalDESC, dNullsLast, dNoDirection,
   dTrailingDot, dMissing, dCapital, dSecret, dAscending, dLeadingSpace,
   dQuoted, dEmpty}

OrdSlices == SeqsUpTo(Directives, MaxOrds)

JStrings(vals) == JList([i \in 1..Len(vals) |-> JStr(vals[i])])

OrdJsonInputs ==
  {JStrings(vals) :
     vals \in SeqsUpTo({dExternalAsc, dInternalTimeDesc, dExternalDESC,
                        dNullsLast}, MaxOrds)}
    \cup {JNull, JBad, JStr(dExternalAsc), JList(<<JNull>>),
          JList(<<JStr(dExternalAsc), JNum("1")>>)}

\* The Items a caller builds by hand
GivenItems ==
  {<<OrdAsc(<<"one", "two">>)>>,
   <<OrdDesc(<<"one">>), OrdAsc(<<"one", "two", "three">>)>>,
   <<OrdAsc(<<"one">>), OrdDesc(<<"two", "ext\"ernal">>)>>}

MoreItems == <<OrdDesc(<<"one", "two", "three">>)>>

OrdBufs == {<<"select">>, <<"select ">>}

----------------------------------------------------------------------------
(* The state machine of the orderings *)

OrdInit ==
  /\ ords \in {OrdsFor(val) : val \in CarrierTypes}
                \cup {OrdsFrom(items) : items \in GivenItems}
                \cup {[OrdsFor(val) EXCEPT !.Items = MoreItems] :
                        val \in CarrierTypes \ {NilType}}
  /\ ordCall = NoOrdCall
  /\ ordResult = NoOrdResult
  /\ expr = ExprFor(NilType)
  /\ call = NoCall
  /\ bui = NewBui(<<>>, <<>>)
  /\ result = NoResult
  /\ prev = NoPrev

OrdReturned(err) ==
  [status |-> IF err = "" THEN "returned" ELSE "error", text |-> <<>>,
   err |-> err]

\* Ords.ParseSlice: a first call with any of the slices, and a second call
\* with the slice of the first
ParseSlice ==
  /\ ordCall.op = "" \/ (ordCall.op = "ParseSlice" /\ ~ordCall.again)
  /\ \E vals \in IF ordCall.op = "" THEN OrdSlices ELSE {ordCall.vals} :
       LET parsed == parseSlice(ords, vals)
       IN /\ ords' = [ords EXCEPT !.Items = parsed.Items]
          /\ ordResult' = OrdReturned(parsed.err)
          /\ ordCall' = [NoOrdCall EXCEPT !.op = "ParseSlice", !.vals = vals,
                                          !.before = ords.Items,
                                          !.again = (ordCall.op # "")]
  /\ UNCHANGED exprVars

\* Ords.UnmarshalJSON
OrdsUnmarshalJSON ==
  /\ ordCall.op = ""
  /\ \E input \in OrdJsonInputs :
       LET got == UnmarshalStrings(input)
           parsed == parseSlice(ords, got.vals)
       IN /\ ords' = IF got.err # "" THEN ords
                     ELSE [ords EXCEPT !.Items = parsed.Items]
          /\ ordResult' = OrdReturned(IF got.err # "" THEN got.err ELSE parsed.err)
          /\ ordCall' = [NoOrdCall EXCEPT !.op = "UnmarshalJSON",
                                          !.input = input,
                                          !.before = ords.Items]
  /\ UNCHANGED exprVars

\* Ords.Append
OrdsAppend ==
  /\ ordCall.op \in {"", "ParseSlice", "UnmarshalJSON"}
  /\ ords' = [ords EXCEPT !.Items = ords.Items \o MoreItems]
  /\ ordResult' = OrdReturned("")
  /\ ordCall' = [NoOrdCall EXCEPT !.op = "Append", !.before = ords.Items]
  /\ UNCHANGED exprVars

IsEmpty(self) == Len(self.Items) = 0

\* Ords.Or
Or ==
  /\ ordCall.op \in {"", "ParseSlice", "UnmarshalJSON"}
  /\ ords' = IF IsEmpty(ords) THEN [ords EXCEPT !.Items = MoreItems] ELSE ords
  /\ ordResult' = OrdReturned("")
  /\ ordCall' = [NoOrdCall EXCEPT !.op = "Or", !.before = ords.Items]
  /\ UNCHANGED exprVars

\* What the caller of String() gets from the local buffer b: the string
\* when the call returns, only the panic value when it panics
Rendered(b) ==
  IF b.err = "" THEN [status |-> "returned", text |-> b.Text, err |-> ""]
  ELSE [status |-> "panic", text |-> <<>>, err |-> b.err]

\* What the caller of AppendBytes(&buf) finds in buf, which the call
\* wrote through the pointer up to where it returned or panicked
Appended(b) ==
  [status |-> IF b.err = "" THEN "returned" ELSE "panic", text |-> b.Text,
   err |-> b.err]

\* Ords.String
OrdsString ==
  /\ ordResult' = Rendered(OrdsAppendItems(NewBui(<<>>, <<>>), ords.Items, 1))
  /\ ordCall' = [NoOrdCall EXCEPT !.op = "String"]
  /\ UNCHANGED <<ords, exprVars>>

\* Ords.AppendBytes(&buf), and Ords.QueryAppend(out) with buf = out.Text
OrdsAppendBytes ==
  /\ \E buf \in OrdBufs :
       /\ ordResult' = Appended(OrdsAppendItems(NewBui(buf, <<>>), ords.Items, 1))
       /\ ordCall' = [NoOrdCall EXCEPT !.op = "AppendBytes", !.buf = buf]
  /\ UNCHANGED <<ords, exprVars>>

\* Ord.String, of one of the items
OrdString ==
  /\ \E i \in 1..Len(ords.Items) :
       /\ ordResult' = Rendered(OrdAppendBytes(NewBui(<<>>, <<>>), ords.Items[i]))
       /\ ordCall' = [NoOrdCall EXCEPT !.op = "Ord.String",
                                       !.before = <<ords.Items[i]>>]
  /\ UNCHANGED <<ords, exprVars>>

OrdNext ==
  \/ ParseSlice
  \/ OrdsUnmarshalJSON
  \/ OrdsAppend
  \/ Or
  \/ OrdsString
  \/ OrdsAppendBytes
  \/ OrdString

OrdSpec == OrdInit /\ [][OrdNext]_vars

----------------------------------------------------------------------------
(* Vocabulary of the properties *)

Compiled == call.made /\ result.status = "returned"
Failed == call.made /\ result.status = "panic"

\* The last call went through Expr.decode
Decoded == call.made /\ ~(expr.IsBool /\ expr.Text.kind = "empty")

IntoEmpty == call.op = "AppendExpr" /\ call.text = <<>> /\ call.args = <<>>

\* The pieces the last call added to the text it was given
NewText == SubSeq(result.text, Len(call.text) + 1, Len(result.text))

IsCall(node) ==
  node.kind = "list" /\ Len(node.items) > 0 /\ node.items[1].kind = "str"

HeadOf(node) == node.items[1].tok
ArgsOf(node) == SubSeq(node.items, 2, Len(node.items))

IsOpCall(node) == IsCall(node) /\ SqlOpsAt(HeadOf(node)) # 0
IsCastCall(node) == IsCall(node) /\ SqlOpsAt(HeadOf(node)) = 0

\* The storage names of the fields reachable from a type
RECURSIVE Columns(_, _)
Columns(rtype, fuel) ==
  IF fuel = 0 \/ rtype = NilType THEN {}
  ELSE LET inner == RtypeDeref(rtype)
       IN UNION {{f.db} \cup Columns(f.type, fuel - 1) :
                   f \in Range(Rtypes[inner].fields)} \ {""}

SchemaColumns(rtype) == Columns(rtype, Cardinality(DOMAIN Rtypes))

\* Every string and literal token the client sent
RECURSIVE ClientTokens(_)
ClientTokens(node) ==
  Range(node.tok) \cup UNION {ClientTokens(item) : item \in Range(node.items)}

FixedPieces == {"(", ")", " ", ".", ",", "=", "between", "and", "true"}

Placeholders(n) == {OrdinalParam(k) : k \in 1..n}

----------------------------------------------------------------------------
(* C1. The text a successful compile emits is made only of whitelisted     *)
(* operator names, parentheses and fixed keywords, positional              *)
(* placeholders, and double-quoted storage names of fields of the          *)
(* schema.  A token the client sent appears in it only as a whitelisted    *)
(* operator name: client values reach the argument list alone.             *)

C1_TextIsWhitelisted ==
  Compiled =>
    \A piece \in Range(NewText) :
      /\ \/ piece \in SqlOpNames \cup FixedPieces
         \/ piece \in Placeholders(Len(bui.Args))
         \/ piece \in {Quoted(col) : col \in SchemaColumns(expr.Type)}
      /\ piece \in ClientTokens(expr.Text) => piece \in SqlOpNames

\* A compile that emitted a column, with a cast whose head and payload
\* are client strings
C1_Witness ==
  /\ Compiled
  /\ expr.Text = Call2("=", JStr(sExternalName),
                       Cast(sExternalName, JStr(sLiteral)))
  /\ Quoted("external_name") \in Range(NewText)
  /\ Len(bui.Args) > Len(call.args)

----------------------------------------------------------------------------
(* C2. After a successful compile into an empty buffer the arguments are   *)
(* the values of the literals and casts of the input in depth-first        *)
(* order, a number, boolean or null literal as its JSON-decoded native     *)
(* value; the text holds as many placeholders as there are arguments, and  *)
(* the k-th placeholder from the left is $k.                               *)

Native(node) ==
  IF node.kind = "null" THEN GoVal("nil", S1("nil"))
  ELSE GoVal(IF node.kind = "num" THEN "float64" ELSE "bool", node.tok)

RECURSIVE Contributions(_, _)
Contributions(self, node) ==
  IF node.kind \in {"num", "bool", "null"} THEN <<Native(node)>>
  ELSE IF IsOpCall(node)
  THEN LET args == ArgsOf(node)
           Upto[i \in 0..Len(args)] ==
             IF i = 0 THEN <<>>
             ELSE Upto[i - 1] \o Contributions(self, args[i])
       IN Upto[Len(args)]
  ELSE IF IsCastCall(node) /\ Len(ArgsOf(node)) = 1
  THEN LET rtype == fieldByJsonPath(self.Type, HeadOf(node)).sfield.type
       IN <<UnmarshalInto(ArgsOf(node)[1], rtype).val>>
  ELSE <<>>

PlaceholdersOf(text) ==
  LET IsPlaceholder(piece) == piece \in Placeholders(Len(text))
  IN SelectSeq(text, IsPlaceholder)

C2_ArgsAlignWithPlaceholders ==
  (Compiled /\ IntoEmpty) =>
    /\ result.args = Contributions(expr, expr.Text)
    /\ PlaceholdersOf(result.text)
         = [k \in 1..Len(result.args) |-> OrdinalParam(k)]

\* Literals and casts interleaved, four arguments
C2_Witness ==
  /\ Compiled /\ IntoEmpty
  /\ expr.Text = TestTranscodeSrc
  /\ Len(result.args) = 4
  /\ result.args[1] = GoVal("bool", S1("false"))
  /\ result.args[4].go = "*time.Time"

----------------------------------------------------------------------------
(* C3. An infix operator over fewer than two operands fails with           *)
(* ArityMismatch.  Over n >= 2 operands that all compile, the result is    *)
(* ( x1' op x2' op ... op xn' ): the operands' own texts in input order,   *)
(* the operator once between each two neighbours.                          *)

\* The separator the builder puts before the first piece of a call
Lead == IF call.text = <<>> THEN <<>> ELSE <<" ">>

C3_InfixIsVariadic ==
  (Decoded /\ call.op = "AppendExpr" /\ IsCall(expr.Text)
     /\ SqlOpsAt(HeadOf(expr.Text)) = SqlInfix) =>
    LET op == HeadOf(expr.Text)[1]
        xs == ArgsOf(expr.Text)
        n == Len(xs)
        \* operand i compiled on its own, after "(" or after the operator
        Seg[i \in 1..n] ==
          decode(expr,
                 NewBui(<<IF i = 1 THEN "(" ELSE op>>,
                        IF i = 1 THEN call.args ELSE Seg[i - 1].Args),
                 xs[i])
        Joined[i \in 1..n] ==
          IF i = 1 THEN Seg[1].Text ELSE Joined[i - 1] \o <<" ">> \o Seg[i].Text
    IN IF n < 2
       THEN Failed /\ result.err = "ArityMismatch"
       ELSE (\A i \in 1..n : Seg[i].err = "") =>
              /\ Compiled
              /\ NewText = Lead \o Joined[n] \o <<")">>
              /\ result.args = Seg[n].Args

\* Three operands under a many-word operator
C3_Witness ==
  /\ Compiled /\ IntoEmpty
  /\ expr.Text = JList(<<JStr(S1("is not distinct from")), JNum("1"),
                         JStr(sExternalName), JNum("1")>>)
  /\ result.text = <<"(", "$1", " ", "is not distinct from", " ",
                     Quoted("external_name"), " ", "is not distinct from",
                     " ", "$2", ")">>

----------------------------------------------------------------------------
(* C4. A list whose head is no whitelisted operator name is a cast.  With  *)
(* any number of arguments but one it fails with CastArityMismatch.  With  *)
(* one argument V and a head that resolves to a field of type T, it emits  *)
(* exactly one placeholder and appends V decoded as T when V is JSON for   *)
(* T, and fails with CastDecodeFailure when it is not; the head is never   *)
(* emitted.  ["=", "a", ["a", V]] compiles to ("a_col" = $1).              *)

ValidJsonFor(node, rtype) ==
  \/ node.kind = "null"
  \/ rtype = "string" /\ node.kind = "str"
  \/ rtype = "*time.Time" /\ node.kind = "str" /\ node.tok \in TimeStrings
  \/ rtype = "Internal" /\ node.kind = "dict"

DecodedAs(node, rtype) ==
  GoVal(rtype, IF node.kind = "null" THEN S1("zero") ELSE node.tok)

C4_CastDecodesIntoFieldType ==
  /\ (Decoded /\ call.op = "AppendExpr" /\ IsCastCall(expr.Text)) =>
       LET args == ArgsOf(expr.Text)
           found == fieldByJsonPath(expr.Type, HeadOf(expr.Text))
           rtype == found.sfield.type
       IN IF Len(args) # 1
          THEN Failed /\ result.err = "CastArityMismatch"
          ELSE found.err = "" =>
                 IF ValidJsonFor(args[1], rtype)
                 THEN /\ Compiled
                      /\ NewText = Lead \o <<OrdinalParam(Len(call.args) + 1)>>
                      /\ result.args = Append(call.args, DecodedAs(args[1], rtype))
                 ELSE Failed /\ result.err = "CastDecodeFailure"
  /\ \A payload \in {JStr(sLiteral), JStr(sTime), JNull} :
       (Decoded /\ IntoEmpty /\ expr.Type = "External"
          /\ expr.Text = Call2("=", JStr(sExternalName),
                               Cast(sExternalName, payload))) =>
         /\ Compiled
         /\ result.text = <<"(", Quoted("external_name"), " ", "=", " ", "$1", ")">>
         /\ result.args = <<DecodedAs(payload, "string")>>

\* ["=", "externalName", ["externalName", "literal string"]], compiled
C4_Witness ==
  /\ Compiled /\ IntoEmpty
  /\ expr.Text = Call2("=", JStr(sExternalName),
                       Cast(sExternalName, JStr(sLiteral)))
  /\ result.args = <<GoVal("string", sLiteral)>>

----------------------------------------------------------------------------
(* C5. A failure at any node of the input, at any depth and any argument   *)
(* position, fails the whole compile, and a failed compile hands the       *)
(* caller no text and no arguments, whatever the builder had taken in      *)
(* before the failure.                                                     *)

\* The nodes of an input that stand where an expression is expected
RECURSIVE ExprNodes(_)
ExprNodes(node) ==
  {node} \cup
    (IF IsOpCall(node)
     THEN UNION {ExprNodes(item) : item \in Range(ArgsOf(node))}
     ELSE {})

FailsAlone(node) == decode(expr, NewBui(<<>>, <<>>), node).err # ""

----------------------------------------------------------------------------
(* C6. Every failure of a compile reaches the caller of the public entry   *)
(* point as a returned error value, never as a panic.                      *)

C6_FailuresAreReturned ==
  (call.made /\ bui.err # "") => result.status = "error"

\* [] compiled: the panic of decodeList leaves AppendExpr
C6_PanicEscapes ==
  /\ call.op = "AppendExpr"
  /\ expr.Text = JList(<<>>)
  /\ result.status = "panic" /\ result.err = "EmptyList"

----------------------------------------------------------------------------
(* C7. Lists nest without a limit of the compiler's own: no compile fails  *)
(* with TooDeep, and an operator call wrapped in any number of further     *)
(* calls compiles exactly when its innermost operand does, to one pair     *)
(* of parentheses per level.                                               *)

RECURSIVE Wrapped(_, _)
Wrapped(depth, text) ==
  IF depth = 0 THEN text
  ELSE <<"(", "not", " ">> \o Wrapped(depth - 1, text) \o <<")">>

----------------------------------------------------------------------------
(* C8. An empty expression in boolean context compiles to the literal      *)
(* true and adds no argument, whatever its type, the nil type included.    *)

C8_EmptyBoolIsTrue ==
  (call.made /\ expr.IsBool /\ expr.Text = JEmpty) =>
    /\ Compiled
    /\ NewText = Lead \o <<"true">>
    /\ result.args = call.args

\* Bool(nil), never given an input, appended to the start of a query
C8_Witness ==
  /\ Compiled
  /\ expr.IsBool /\ expr.Text = JEmpty /\ expr.Type = NilType
  /\ call.text = <<"where">>
  /\ result.text = <<"where", " ", "true">>
  /\ Len(result.args) = 1

----------------------------------------------------------------------------
(* C9. A string where an expression is expected is a field path, never an  *)
(* operator.  It compiles to the quoted storage path when the path is     *)
(* well formed, a type is given, and every segment names a field that has  *)
(* a storage name in the record reached so far.  Otherwise it fails and    *)
(* emits nothing: InvalidPath for a malformed path, NoSchemaProvided for   *)
(* no type, UnknownField for a segment that names no field of the record,  *)
(* NoStorageMapping for a field with no storage name, the struct           *)
(* traversal's own failure when the type reached is no record, and the     *)
(* path writer's failure when a storage name holds a double quote.         *)

\* The fields of a type that carry a public name
RECURSIVE FieldsOf(_)
FieldsOf(rtype) ==
  LET direct == Range(Rtypes[rtype].fields)
  IN {f \in direct : ~f.anon}
       \cup UNION {FieldsOf(f.type) : f \in {g \in direct : g.anon}}

FieldsNamed(rtype, name) ==
  IF rtype \in {NilType, "none"} THEN {}
  ELSE {f \in FieldsOf(RtypeDeref(rtype)) : f.json = name}

IsRecord(rtype) ==
  rtype \notin {NilType, "none"} /\ Rtypes[RtypeDeref(rtype)].kind = "struct"

\* What a path of public names comes to in a type: the types it passes,
\* the storage names it collects, and how far it gets
PathIn(rtype, names) ==
  LET n == Len(names)
      At[i \in 0..n] ==
        IF i = 0 THEN rtype
        ELSE LET fs == FieldsNamed(At[i - 1], names[i])
             IN IF fs = {} \/ (CHOOSE f \in fs : TRUE).db = "" THEN "none"
                ELSE (CHOOSE f \in fs : TRUE).type
      Stored == [i \in 1..n |->
                   IF At[i] = "none" THEN ""
                   ELSE (CHOOSE f \in FieldsNamed(At[i - 1], names[i]) : TRUE).db]
      stuck == {i \in 1..n : At[i] = "none"}
      first == IF stuck = {} THEN 0
               ELSE CHOOSE i \in stuck : \A j \in stuck : i <= j
  IN [first |-> first, stored |-> Stored,
      cause |-> IF first = 0 THEN ""
                ELSE IF ~IsRecord(At[first - 1]) THEN "NotAStruct"
                ELSE IF FieldsNamed(At[first - 1], names[first]) = {}
                     THEN "UnknownField"
                     ELSE "NoStorageMapping"]

\* "a" for one storage name, ("a")."b"."c" for more
QuotedPath(stored) ==
  LET Rest[i \in 1..Len(stored)] ==
        IF i = 1 THEN <<>> ELSE Rest[i - 1] \o <<".", Quoted(stored[i])>>
  IN IF Len(stored) = 1 THEN <<Quoted(stored[1])>>
     ELSE <<"(", Quoted(stored[1]), ")">> \o Rest[Len(stored)]

C9_StringIsFieldPath ==
  (Decoded /\ expr.Text.kind = "str") =>
    LET names == expr.Text.tok
        walk == PathIn(expr.Type, names)
    IN /\ Failed => result.text = <<>> /\ result.args = <<>>
       /\ IF \E i \in 1..Len(names) : ~IsWord(names[i])
          THEN Failed /\ result.err = "InvalidPath"
          ELSE IF expr.Type = NilType
          THEN Failed /\ result.err = "NoSchemaProvided"
          ELSE IF walk.first # 0
          THEN Failed /\ result.err = walk.cause
          ELSE IF \E i \in 1..Len(names) : HasQuote(walk.stored[i])
          THEN Failed /\ result.err = "QuoteInIdentifier"
          ELSE /\ Compiled
               /\ NewText = Lead \o QuotedPath(walk.stored)
               /\ result.args = call.args

\* "internal.internalTime" compiled after the start of a query
C9_Witness ==
  /\ Compiled
  /\ expr.Text = JStr(sInternalTime)
  /\ call.text = <<"where">>
  /\ result.text = <<"where", " ", "(", Quoted("internal"), ")", ".",
                     Quoted("internal_time")>>

\* The claim as stated: whatever does not resolve fails with UnknownField,
\* and a path of matching public names compiles
C9_UnresolvedIsUnknownField ==
  (Decoded /\ expr.Text.kind = "str") =>
    LET names == expr.Text.tok
        Cur[i \in 0..Len(names)] ==
          IF i = 0 THEN expr.Type
          ELSE IF FieldsNamed(Cur[i - 1], names[i]) = {} THEN "none"
               ELSE (CHOOSE f \in FieldsNamed(Cur[i - 1], names[i]) : TRUE).type
    IN IF \A i \in 1..Len(names) : Cur[i] # "none"
       THEN Compiled
       ELSE Failed /\ result.err = "UnknownField" /\ result.text = <<>>

----------------------------------------------------------------------------
(* C10. Compiling the same expression twice from the same text and         *)
(* arguments gives the same outcome twice: the same text and the same      *)
(* arguments, or the same failure.                                         *)

----------------------------------------------------------------------------
(* C17. ["between", x, lo, hi] compiles to (x' between lo' and hi') and    *)
(* ["any", x, y] to (x' = any (y')), the operands decoded in input order.  *)
(* any with other than 2 arguments and between with other than 3 fail      *)
(* with ArityMismatch, and the builder has taken in nothing by then.       *)

\* Operand x compiled on its own after the piece lead, the arguments so
\* far being args
After(lead, args, x) == decode(expr, NewBui(<<lead>>, args), x)

C17_AnyAndBetween ==
  (Decoded /\ call.op = "AppendExpr" /\ IsCall(expr.Text)) =>
    LET xs == ArgsOf(expr.Text)
        syntax == SqlOpsAt(HeadOf(expr.Text))
    IN /\ (syntax = SqlBetween /\ Len(xs) # 3) \/ (syntax = SqlAny /\ Len(xs) # 2) =>
            /\ Failed /\ result.err = "ArityMismatch"
            /\ bui.Text = call.text /\ bui.Args = call.args
       /\ (syntax = SqlBetween /\ Len(xs) = 3) =>
            LET x == After("(", call.args, xs[1])
                lo == After("between", x.Args, xs[2])
                hi == After("and", lo.Args, xs[3])
            IN (x.err = "" /\ lo.err = "" /\ hi.err = "") =>
                 /\ Compiled
                 /\ NewText = Lead \o x.Text \o <<" ">> \o lo.Text \o <<" ">>
                                \o hi.Text \o <<")">>
                 /\ result.args = hi.Args
       /\ (syntax = SqlAny /\ Len(xs) = 2) =>
            LET x == After("(", call.args, xs[1])
                y == After("(", x.Args, xs[2])
            IN (x.err = "" /\ y.err = "") =>
                 /\ Compiled
                 /\ NewText = Lead \o x.Text \o <<" ", "=", " ", "any", " ">>
                                \o y.Text \o <<")", ")">>
                 /\ result.args = y.Args

\* ["any", 1, "externalName"]
C17_Witness ==
  /\ Compiled /\ IntoEmpty
  /\ expr.Text = Call2("any", JNum("1"), JStr(sExternalName))
  /\ result.text = <<"(", "$1", " ", "=", " ", "any", " ", "(",
                     Quoted("external_name"), ")", ")">>
  /\ Len(result.args) = 1

----------------------------------------------------------------------------
(* C18. For a prefix operator [op, x] compiles to (op x'), for a postfix   *)
(* operator to (x' op).  With any number of arguments but one, none        *)
(* included, both fail with ArityMismatch.                                 *)

C18_PrefixAndPostfix ==
  (Decoded /\ call.op = "AppendExpr" /\ IsCall(expr.Text)
     /\ SqlOpsAt(HeadOf(expr.Text)) \in {SqlPrefix, SqlPostfix}) =>
    LET op == HeadOf(expr.Text)[1]
        xs == ArgsOf(expr.Text)
    IN IF Len(xs) # 1
       THEN Failed /\ result.err = "ArityMismatch"
       ELSE IF SqlOpsAt(HeadOf(expr.Text)) = SqlPrefix
       THEN LET x == After(op, call.args, xs[1])
            IN x.err = "" =>
                 /\ Compiled
                 /\ NewText = Lead \o <<"(">> \o x.Text \o <<")">>
                 /\ result.args = x.Args
       ELSE LET x == After("(", call.args, xs[1])
            IN x.err = "" =>
                 /\ Compiled
                 /\ NewText = Lead \o x.Text \o <<" ", op, ")">>
                 /\ result.args = x.Args

\* ["is not null", "externalName"] after the start of a query
C18_Witness ==
  /\ Compiled
  /\ expr.Text = Call1("is not null", JStr(sExternalName))
  /\ call.text = <<"where">>
  /\ result.text = <<"where", " ", "(", Quoted("external_name"), " ",
                     "is not null", ")">>

----------------------------------------------------------------------------
(* C19. A node of a malformed shape fails wherever it is decoded: an       *)
(* object with UnexpectedObject, a list of no elements with EmptyList, a   *)
(* list whose first element is no string with HeadNotString.  Nothing is   *)
(* written for it: it is no operator call, no cast and no literal.         *)

ShapeError(node) ==
  IF node.kind = "dict" THEN "UnexpectedObject"
  ELSE IF node.kind = "list" /\ node.items = <<>> THEN "EmptyList"
  ELSE IF node.kind = "list" /\ node.items[1].kind # "str" THEN "HeadNotString"
  ELSE ""

C19_MalformedShapesFail ==
  (call.made /\ Decoded) =>
    /\ ShapeError(expr.Text) # "" =>
         /\ Failed /\ result.err = ShapeError(expr.Text)
         /\ bui.Text = call.text /\ bui.Args = call.args
    /\ \A node \in ExprNodes(expr.Text) :
         ShapeError(node) # "" =>
           /\ Failed
           /\ After("and", call.args, node)
                = Panic(NewBui(<<"and">>, call.args), ShapeError(node))
    /\ (IsOpCall(expr.Text) /\ Len(ArgsOf(expr.Text)) = 1
          /\ SqlOpsAt(HeadOf(expr.Text)) \in {SqlPrefix, SqlPostfix}
          /\ ShapeError(ArgsOf(expr.Text)[1]) # "") =>
         result.err = ShapeError(ArgsOf(expr.Text)[1])

\* An object two operators down
C19_Witness ==
  /\ Failed
  /\ expr.Text = Nest(2, JDict)
  /\ result.err = "UnexpectedObject"
  /\ Len(bui.Text) > Len(call.text)

----------------------------------------------------------------------------
(* C20. A path through a field whose type is a pointer to a record or a    *)
(* slice of records resolves as it does through a field of the record      *)
(* type itself; a field of a nested record that is not embedded is never   *)
(* matched by a single segment.                                            *)

C20_WrappersAreUnwrapped ==
  /\ \A field \in {"internal", "internalPtr", "internalList"} :
       (Decoded /\ expr.Type = "External" /\ call.op = "AppendExpr"
          /\ expr.Text = JStr(<<field, "internalTime">>)) =>
         LET db == (CHOOSE f \in FieldsOf("External") : f.json = field).db
         IN /\ Compiled
            /\ NewText = Lead \o <<"(", Quoted(db), ")", ".",
                                   Quoted("internal_time")>>
  /\ (Decoded /\ expr.Type = "External" /\ expr.Text = JStr(sNestedOnly)) =>
       Failed /\ result.err = "UnknownField"

\* "internalList.internalTime": the slice is not taken for its element
C20_SliceIsNotUnwrapped ==
  /\ Failed
  /\ expr.Type = "External"
  /\ expr.Text = JStr(sThroughList)
  /\ result.err = "NotAStruct"

\* "internalPtr.internalTime" compiled
C20_PointerIsUnwrapped ==
  /\ Compiled /\ IntoEmpty
  /\ expr.Text = JStr(sThroughPtr)
  /\ result.text = <<"(", Quoted("internal_ptr"), ")", ".",
                     Quoted("internal_time")>>

----------------------------------------------------------------------------
(* C11: when every directive of a list parses, Items holds one ordering    *)
(* per directive, in the order of the list: its path is the storage names  *)
(* the schema gives the directive's public names, and it is descending     *)
(* exactly when the directive ends in desc, in any case.  A directive that *)
(* repeats an earlier one gets its own ordering.  A JSON array of strings  *)
(* leaves the Items and the error that ParseSlice leaves for the strings.  *)

\* The public names of a directive: the words before its first whitespace
PublicNames(str) ==
  LET spaces == {i \in 1..Len(str) : str[i] \in WhitespaceTokens}
      k == IF spaces = {} THEN Len(str) + 1
           ELSE CHOOSE i \in spaces : \A j \in spaces : i <= j
  IN SelectSeq(SubSeq(str, 1, k - 1), LAMBDA tok : tok # ".")

EndsInDesc(str) == Len(str) > 0 /\ str[Len(str)] \in {"desc", "DESC", "Desc"}

IsStringArray(input) ==
  input.kind = "list" /\ \A i \in 1..Len(input.items) : input.items[i].kind = "str"

\* The strings the last parse was given
GivenStrings ==
  IF ordCall.op = "ParseSlice" THEN ordCall.vals
  ELSE [i \in 1..Len(ordCall.input.items) |-> ordCall.input.items[i].tok]

Parsed ==
  \/ ordCall.op = "ParseSlice"
  \/ ordCall.op = "UnmarshalJSON" /\ IsStringArray(ordCall.input)

C11_OneOrdPerDirective ==
  /\ (Parsed /\ ordResult.status = "returned") =>
       /\ Len(ords.Items) = Len(GivenStrings)
       /\ \A i \in 1..Len(GivenStrings) :
            /\ ords.Items[i].Path =
                 PathIn(ords.Type, PublicNames(GivenStrings[i])).stored
            /\ ords.Items[i].IsDesc = EndsInDesc(GivenStrings[i])
  /\ (ordCall.op = "UnmarshalJSON" /\ IsStringArray(ordCall.input)) =>
       LET slice == parseSlice([ords EXCEPT !.Items = ordCall.before],
                               GivenStrings)
       IN ords.Items = slice.Items /\ ordResult.err = slice.err

\* The same directive twice gives the same ordering twice
C11_Witness ==
  /\ ordCall.op = "ParseSlice"
  /\ ordCall.vals = <<dExternalAsc, dExternalAsc>>
  /\ ordResult.status = "returned"
  /\ ords.Items = <<OrdAsc(<<"external_name">>), OrdAsc(<<"external_name">>)>>

\* The array of the tests, decoded from JSON
C11_JsonWitness ==
  /\ ordCall.op = "UnmarshalJSON"
  /\ ordCall.input = JStrings(<<dExternalAsc, dInternalTimeDesc>>)
  /\ ordResult.status = "returned"
  /\ ords.Items = <<OrdAsc(<<"external_name">>),
                    OrdDesc(<<"internal", "internal_time">>)>>

----------------------------------------------------------------------------
(* C12: a directive is accepted only when the whole string is a dotted     *)
(* identifier, then whitespace, then asc or desc in any case.  Every other *)
(* string fails with InvalidOrderingSyntax: one with a qualifier after the *)
(* direction, one with no direction, one whose identifier is malformed.    *)
(* The identifier is looked up in the schema as it is written, so a name   *)
(* in another case is a well-formed directive that names no field.         *)

DirectionWords == {"asc", "ASC", "Asc", "desc", "DESC", "Desc"}

\* ident (. ident)* whitespace+ direction, and nothing else
WellFormed(str) ==
  \E k \in 1..Len(str) :
    /\ k % 2 = 1
    /\ \A i \in 1..k : IF i % 2 = 1 THEN str[i] \in Words ELSE str[i] = "."
    /\ Len(str) >= k + 2
    /\ \A i \in (k + 1)..(Len(str) - 1) : str[i] \in WhitespaceTokens
    /\ str[Len(str)] \in DirectionWords

\* What one directive comes to against a type
DirectiveOutcome(rtype, str) ==
  IF ~WellFormed(str) THEN "InvalidOrderingSyntax"
  ELSE IF rtype = NilType THEN "NoSchemaProvided"
  ELSE PathIn(rtype, PublicNames(str)).cause

C12_OnlyWellFormedDirectives ==
  ordCall.op = "ParseSlice" =>
    LET vals == ordCall.vals
        bad == {i \in 1..Len(vals) : DirectiveOutcome(ords.Type, vals[i]) # ""}
    IN IF bad = {} THEN ordResult.status = "returned"
       ELSE LET first == CHOOSE i \in bad : \A j \in bad : i <= j
            IN /\ ordResult.status = "error"
               /\ ordResult.err = DirectiveOutcome(ords.Type, vals[first])

\* The qualifier of the tests is refused
C12_Witness ==
  /\ ordCall.op = "ParseSlice"
  /\ ordCall.vals = <<dNullsLast>>
  /\ ords.Type = "External"
  /\ ordResult.err = "InvalidOrderingSyntax"

\* DESC after a space and a tab is a direction
C12_UpperCaseDirection ==
  /\ ordCall.op = "ParseSlice"
  /\ ordCall.vals = <<dExternalDESC>>
  /\ ordResult.status = "returned"
  /\ ords.Items = <<OrdDesc(<<"external_name">>)>>

\* ExternalName is no name of the schema
C12_CapitalIdentifier ==
  /\ ordCall.op = "ParseSlice"
  /\ ordCall.vals = <<dCapital>>
  /\ ords.Type = "External"
  /\ ordResult.err = "UnknownField"

----------------------------------------------------------------------------
(* C13: an Ords without items renders as the empty string, and adds        *)
(* nothing to a buffer.  With items it renders as "order by " once, then   *)
(* every item in the order of the list as its quoted path and " asc" or    *)
(* " desc", with ", " between the items; in a buffer that does not end in  *)
(* whitespace a space goes before it.                                      *)

\* "a" for one storage name, ("a")."b"."c" for more, as a string
PathString(path) ==
  LET Rest[i \in 1..Len(path)] ==
        IF i = 1 THEN "" ELSE Rest[i - 1] \o ".\"" \o path[i] \o "\""
  IN IF Len(path) = 1 THEN "\"" \o path[1] \o "\""
     ELSE "(\"" \o path[1] \o "\")" \o Rest[Len(path)]

Term(ord) == PathString(ord.Path) \o (IF ord.IsDesc THEN " desc" ELSE " asc")

OrderBy(items) ==
  LET Terms[i \in 1..Len(items)] ==
        IF i = 1 THEN Term(items[1]) ELSE Terms[i - 1] \o ", " \o Term(items[i])
  IN "order by " \o Terms[Len(items)]

Quoteless(items) ==
  \A i \in 1..Len(items) :
    \A j \in 1..Len(items[i].Path) : ~HasQuote(items[i].Path[j])

C13_EmptyWitness ==
  /\ ordCall.op = "String"
  /\ ords.Items = <<>>
  /\ ordResult.status = "returned"
  /\ Flat(ordResult.text) = ""

\* After a query that does not end in a space
C13_BufferWitness ==
  /\ ordCall.op = "AppendBytes"
  /\ ordCall.buf = <<"select">>
  /\ ords.Items = <<OrdAsc(<<"one", "two">>)>>
  /\ Flat(ordResult.text) = "select order by (\"one\").\"two\" asc"

----------------------------------------------------------------------------
(* C14: an Ord renders as its quoted path and " asc nulls last" or         *)
(* " desc nulls last", and an Ords as "order by " and its items in that    *)
(* form.  The tests and the changelog say so; Ord.AppendBytes writes the   *)
(* direction and nothing after it.                                         *)

TermNullsLast(ord) == Term(ord) \o " nulls last"

OrderByNullsLast(items) ==
  LET Terms[i \in 1..Len(items)] ==
        IF i = 1 THEN TermNullsLast(items[1])
        ELSE Terms[i - 1] \o ", " \o TermNullsLast(items[i])
  IN "order by " \o Terms[Len(items)]

C14_NullsLast ==
  /\ (ordCall.op = "Ord.String" /\ Quoteless(ordCall.before)) =>
       Flat(ordResult.text) = TermNullsLast(ordCall.before[1])
  /\ (ordCall.op = "String" /\ ords.Items # <<>> /\ Quoteless(ords.Items)) =>
       Flat(ordResult.text) = OrderByNullsLast(ords.Items)

\* OrdAsc("one", "two").String() of TestOrdString
C14_DirectionIsLast ==
  /\ ordCall.op = "Ord.String"
  /\ ordCall.before = <<OrdAsc(<<"one", "two">>)>>
  /\ ordResult.status = "returned"
  /\ Flat(ordResult.text) = "(\"one\").\"two\" asc"

----------------------------------------------------------------------------
(* C15: a path of one storage name is written as the name in double        *)
(* quotes; a longer path as the first name in quotes and parentheses, then *)
(* a dot and the quoted name for every later one, in order.  An ordering   *)
(* starts with its path in this form, and the path writer of the           *)
(* expressions gives the same bytes for the same path.                     *)

C15_IdentifierEmission ==
  (ordCall.op = "Ord.String" /\ Quoteless(ordCall.before)) =>
    LET ord == ordCall.before[1]
        text == ordResult.text
    IN /\ ordResult.status = "returned"
       /\ Len(ord.Path) > 0
       /\ Len(text) > 2
       /\ Flat(SubSeq(text, 1, Len(text) - 2)) = PathString(ord.Path)
       /\ SubSeq(text, Len(text) - 1, Len(text))
            = <<" ", IF ord.IsDesc THEN "desc" ELSE "asc">>
       /\ Flat(BuiPath(NewBui(<<>>, <<>>), ord.Path).Text) = PathString(ord.Path)

\* Three names: only the first is in parentheses
C15_Witness ==
  /\ ordCall.op = "Ord.String"
  /\ ordCall.before = <<OrdAsc(<<"one", "two", "three">>)>>
  /\ Flat(ordResult.text) = "(\"one\").\"two\".\"three\" asc"
  /\ Flat(BuiPath(NewBui(<<>>, <<>>), <<"one", "two", "three">>).Text)
       = "(\"one\").\"two\".\"three\""

\* One name: quotes and nothing else
C15_SingleName ==
  /\ ordCall.op = "Ord.String"
  /\ ordCall.before = <<OrdDesc(<<"one">>)>>
  /\ Flat(ordResult.text) = "\"one\" desc"

----------------------------------------------------------------------------
(* C16: no path that resolution produces holds a double quote in a storage *)
(* name: a name with a quote is refused when it is met.  The resolution    *)
(* takes the storage name from the field's tag as it is, and only the path *)
(* writer looks for the quote, so a parse returns such a path without an   *)
(* error and the failure comes with the rendering, as a panic.             *)

C16_NoQuoteInFieldPath ==
  (Parsed /\ ordResult.status = "returned") => Quoteless(ords.Items)

\* "quoted desc" parses into a path with a quote in its name
C16_QuoteIsResolved ==
  /\ ordCall.op = "ParseSlice"
  /\ ordCall.vals = <<dQuoted>>
  /\ ordResult.status = "returned"
  /\ ords.Items = <<OrdDesc(<<"ext\"ernal">>)>>

\* The parsed path fails when it is rendered
C16_RenderingPanics ==
  /\ ordCall.op = "String"
  /\ ords.Type = "External"
  /\ ords.Items = <<OrdDesc(<<"ext\"ernal">>)>>
  /\ ordResult.status = "panic"
  /\ ordResult.err = "QuoteInIdentifier"

\* What was written before the quote was met stays in the caller's buffer
C16_BufferKeepsTheStart ==
  /\ ordCall.op = "AppendBytes"
  /\ ordCall.buf = <<"select">>
  /\ ords.Items = <<OrdAsc(<<"one">>), OrdDesc(<<"two", "ext\"ernal">>)>>
  /\ ordResult.status = "panic"
  /\ Flat(ordResult.text) = "select order by \"one\" asc, (\"two\")"

----------------------------------------------------------------------------
(* C21: what the lookup of a path returns.  A path that is empty, or has   *)
(* an empty segment or one that is no word, fails with InvalidPath,        *)
(* whether a type is given or not.  A well-formed path with no type fails  *)
(* with NoSchemaProvided.  A segment that matches a field with no storage  *)
(* name fails with NoStorageMapping.  A lookup that succeeds returns as    *)
(* many storage names as the path has segments, each the storage name of   *)
(* the field its segment matches.  The compile of a string fails with the  *)
(* error of its lookup.                                                    *)

Malformed(names) == \E i \in 1..Len(names) : names[i] \notin Words

C21_ResolverOutcomes ==
  (Decoded /\ expr.Text.kind = "str") =>
    LET names == expr.Text.tok
        found == fieldByJsonPath(expr.Type, names)
        walk == PathIn(expr.Type, names)
    IN /\ Malformed(names) => found.err = "InvalidPath"
       /\ (~Malformed(names) /\ expr.Type = NilType) =>
            found.err = "NoSchemaProvided"
       /\ (~Malformed(names) /\ expr.Type # NilType
             /\ walk.cause = "NoStorageMapping") =>
            found.err = "NoStorageMapping"
       /\ found.err = "" =>
            /\ Len(found.path) = Len(names)
            /\ walk.first = 0
            /\ \A i \in 1..Len(names) :
                 /\ found.path[i] # ""
                 /\ found.path[i] = walk.stored[i]
       /\ found.err # "" => Failed /\ result.err = found.err

\* A path with an empty segment and no type: the syntax is what fails
C21_Witness ==
  /\ Failed
  /\ expr.Type = NilType
  /\ expr.Text = JStr(sTrailingDot)
  /\ result.err = "InvalidPath"

\* The empty path against a type
C21_EmptyPath ==
  /\ Failed
  /\ expr.Type = "External"
  /\ expr.Text = JStr(sEmptyPath)
  /\ result.err = "InvalidPath"

\* A well-formed path and no type
C21_NoType ==
  /\ Failed
  /\ expr.Type = NilType
  /\ expr.Text = JStr(sInternalTime)
  /\ result.err = "NoSchemaProvided"

\* A field with a public name and no storage name
C21_NoStorageName ==
  /\ Failed
  /\ expr.Type = "External"
  /\ expr.Text = JStr(sSecret)
  /\ result.err = "NoStorageMapping"

\* Two segments give two storage names
C21_TwoSegments ==
  /\ Compiled
  /\ expr.Text = JStr(sInternalTime)
  /\ fieldByJsonPath(expr.Type, sInternalTime).path
       = <<"internal", "internal_time">>

----------------------------------------------------------------------------
(* C22: ParseSlice leaves in Items the orderings of the directives before  *)
(* the first one that fails, in order, and nothing of what Items held      *)
(* before the call; it returns that directive's error.  With no failing    *)
(* directive Items holds the orderings of all of them.  A second call with *)
(* the same slice leaves Items as the first call left them.                *)

\* The ordering a directive that parses stands for
OrdOf(rtype, str) ==
  [Path |-> PathIn(rtype, PublicNames(str)).stored, IsDesc |-> EndsInDesc(str)]

C22_ParseSliceReplacesItems ==
  ordCall.op = "ParseSlice" =>
    LET vals == ordCall.vals
        bad == {i \in 1..Len(vals) : DirectiveOutcome(ords.Type, vals[i]) # ""}
        first == IF bad = {} THEN Len(vals) + 1
                 ELSE CHOOSE i \in bad : \A j \in bad : i <= j
    IN /\ ords.Items = [j \in 1..(first - 1) |-> OrdOf(ords.Type, vals[j])]
       /\ bad # {} => /\ ordResult.status = "error"
                      /\ ordResult.err = DirectiveOutcome(ords.Type, vals[first])
       /\ ordCall.again => ords.Items = ordCall.before

\* The second directive fails: Items holds the first one's ordering and
\* not the ordering it held before the call
C22_Witness ==
  /\ ordCall.op = "ParseSlice"
  /\ ~ordCall.again
  /\ ords.Type = "External"
  /\ ordCall.before = MoreItems
  /\ ordCall.vals = <<dInternalTimeDesc, dNullsLast>>
  /\ ordResult.err = "InvalidOrderingSyntax"
  /\ ords.Items = <<OrdDesc(<<"internal", "internal_time">>)>>

\* The first directive fails: Items is left empty
C22_FirstFails ==
  /\ ordCall.op = "ParseSlice"
  /\ ordCall.before = MoreItems
  /\ ordCall.vals = <<dMissing, dExternalAsc>>
  /\ ordResult.err = "UnknownField"
  /\ ords.Items = <<>>

\* The second call with the same slice
C22_SecondCall ==
  /\ ordCall.op = "ParseSlice"
  /\ ordCall.again
  /\ ordCall.vals = <<dExternalAsc, dInternalTimeDesc>>
  /\ ords.Items = <<OrdAsc(<<"external_name">>),
                    OrdDesc(<<"internal", "internal_time">>)>>
  /\ ordCall.before = ords.Items

----------------------------------------------------------------------------
(* C23: a compile that succeeds returns the text it was given with pieces  *)
(* added after it, and the arguments it was given with arguments added     *)
(* after them; the placeholders among the added pieces are, in order,      *)
(* those of the added arguments, numbered on from the arguments given.     *)
(* No compile changes the expression, and the same call repeated returns   *)
(* the same result.                                                        *)

AddedPlaceholders ==
  SelectSeq(NewText, LAMBDA piece : piece \in Placeholders(Len(result.args)))

PrefixesKept ==
  (Compiled /\ call.op = "AppendExpr") =>
    /\ Len(result.text) >= Len(call.text)
    /\ SubSeq(result.text, 1, Len(call.text)) = call.text
    /\ Len(result.args) >= Len(call.args)
    /\ SubSeq(result.args, 1, Len(call.args)) = call.args
    /\ AddedPlaceholders
         = [k \in 1..(Len(result.args) - Len(call.args)) |->
              OrdinalParam(Len(call.args) + k)]
    /\ (prev.call = call /\ prev.call.made) => prev.result = result

\* A step that compiles: the call or its record changes
Compiles == call' # call \/ prev' # prev \/ result' # result \/ bui' # bui

C23_CompileKeepsWhatItIsGiven ==
  [](PrefixesKept) /\ [][Compiles => expr' = expr]_vars

\* The input of TestTranscode compiled after "where" and one argument:
\* the first new placeholder is $2
C23_Witness ==
  /\ Compiled /\ call.op = "AppendExpr"
  /\ expr.Text = TestTranscodeSrc
  /\ call.text = <<"where">>
  /\ call.args = <<GoVal("string", S1("x"))>>
  /\ Len(result.args) = 5
  /\ result.args[1] = GoVal("string", S1("x"))
  /\ AddedPlaceholders = <<"$2", "$3", "$4", "$5">>

====
